---------------------------- MODULE Spec2Model ----------------------------
(***************************************************************************)
(* A model of examples/send-email.py: the one-shot mailer that dircap's    *)
(* scheduler calls after a WARN/OVER run.                                  *)
(*                                                                         *)
(*   main -> _load_json -> _summarize -> _build_message -> _send_email     *)
(*                                                                         *)
(* Text that the program inspects character by character (environment      *)
(* values, numeric strings, status labels, warning texts) is a sequence of *)
(* one-character strings; file paths, which it only copies, are TLA+       *)
(* strings.                                                                *)
(***************************************************************************)
EXTENDS Integers, Sequences, FiniteSets, TLC

(***************************************************************************)
(* Bounds of the model.                                                    *)
(***************************************************************************)
\* argv has 1 .. MaxArgc entries (the program name included).
MaxArgc == 4
\* The integers a report's tally may carry are -1 .. MaxCount.
MaxCount == 2
\* A report carries at most MaxResults entries in its result list.
MaxResults == 2
\* A report carries at most MaxWarnings entries in its warning list.
MaxWarnings == 2

(***************************************************************************)
(* Python's None, and str methods on character sequences.                  *)
(***************************************************************************)
None == [t |-> "none"]

Chars(s) == [t |-> "chars", v |-> s]

IsNone(x) == x = None

IsSpace(c) == c \in {" ", "\t", "\n"}

RECURSIVE LStrip(_)
LStrip(s) ==
    IF s # <<>> /\ IsSpace(Head(s)) THEN LStrip(Tail(s)) ELSE s

RECURSIVE RStrip(_)
RStrip(s) ==
    IF s # <<>> /\ IsSpace(s[Len(s)])
    THEN RStrip(SubSeq(s, 1, Len(s) - 1))
    ELSE s

\* str.strip()
Strip(s) == RStrip(LStrip(s))

UpperCase ==
    << "A", "B", "C", "D", "E", "F", "G", "H", "I", "J", "K", "L", "M",
       "N", "O", "P", "Q", "R", "S", "T", "U", "V", "W", "X", "Y", "Z" >>

LowerCase ==
    << "a", "b", "c", "d", "e", "f", "g", "h", "i", "j", "k", "l", "m",
       "n", "o", "p", "q", "r", "s", "t", "u", "v", "w", "x", "y", "z" >>

LowerChar(c) ==
    IF \E i \in 1..26 : UpperCase[i] = c
    THEN LowerCase[CHOOSE i \in 1..26 : UpperCase[i] = c]
    ELSE c

\* str.lower()
Lower(s) == [i \in 1..Len(s) |-> LowerChar(s[i])]

IsDigit(c) == c \in {"0", "1", "2", "3", "4", "5", "6", "7", "8", "9"}

DigitVal(c) ==
    CASE c = "0" -> 0 [] c = "1" -> 1 [] c = "2" -> 2 [] c = "3" -> 3
      [] c = "4" -> 4 [] c = "5" -> 5 [] c = "6" -> 6 [] c = "7" -> 7
      [] c = "8" -> 8 [] c = "9" -> 9

\* The digits of an int() literal once whitespace and sign are gone: digits,
\* with single underscores allowed between digits.
IsDigitRun(u) ==
    /\ u # <<>>
    /\ IsDigit(u[1])
    /\ IsDigit(u[Len(u)])
    /\ \A i \in 1..Len(u) : IsDigit(u[i]) \/ u[i] = "_"
    /\ \A i \in 1..(Len(u) - 1) : ~(u[i] = "_" /\ u[i + 1] = "_")

Unsigned(t) ==
    IF t # <<>> /\ Head(t) \in {"+", "-"} THEN Tail(t) ELSE t

\* Whether int(s) accepts the text s (it raises ValueError otherwise).
IntParses(s) == IsDigitRun(Unsigned(Strip(s)))

RECURSIVE DigitsValue(_, _)
DigitsValue(u, acc) ==
    IF u = <<>> THEN acc
    ELSE IF Head(u) = "_" THEN DigitsValue(Tail(u), acc)
    ELSE DigitsValue(Tail(u), 10 * acc + DigitVal(Head(u)))

\* int(s) for a text that int() accepts.
IntOfText(s) ==
    LET t == Strip(s)
        n == DigitsValue(Unsigned(t), 0)
    IN  IF t # <<>> /\ Head(t) = "-" THEN 0 - n ELSE n

(***************************************************************************)
(* The config reader.  An environment maps each variable name to None      *)
(* (unset) or to Chars(text).                                              *)
(***************************************************************************)
\* _env(name, default): the trimmed value, or default when unset or blank.
_env(environ, name, default) ==
    LET v == environ[name]
    IN  IF IsNone(v) THEN default
        ELSE IF Strip(v.v) # <<>> THEN Chars(Strip(v.v)) ELSE default

TruthyTokens ==
    { <<"1">>, <<"t", "r", "u", "e">>, <<"y", "e", "s">>, <<"y">>, <<"o", "n">> }

\* A faulty _env_bool: the value is compared without lower().
_env_bool_CaseSensitive(environ, name, default) ==
    LET v == _env(environ, name, None)
    IN  IF IsNone(v) THEN default ELSE v.v \in TruthyTokens

\* _env_bool(name, default)
_env_bool(environ, name, default) ==
    LET v == _env(environ, name, None)
    IN  IF IsNone(v) THEN default ELSE Lower(v.v) \in TruthyTokens

(***************************************************************************)
(* JSON values as json.loads returns them.  JSON null is Python's None; a  *)
(* key that a dict does not hold is Absent.  A float is kept as twice its  *)
(* value, so that 1.5 is JFloat(3).                                         *)
(***************************************************************************)
Absent == [t |-> "absent"]

JInt(n) == [t |-> "int", v |-> n]

JBool(b) == [t |-> "bool", v |-> b]

JFloat(k) == [t |-> "float", twice |-> k]

NaN == [t |-> "nan"]

JList(s) == [t |-> "list", v |-> s]

\* The verbose report shape, and the tally inside it.
Report(s, w, r) == [t |-> "dict", summary |-> s, warnings |-> w, results |-> r]

Tally(o, w, v) == [t |-> "dict", ok |-> o, warn |-> w, over |-> v]

\* One result record.
Record(name, path, pct, status, used, limit) ==
    [t |-> "dict", name |-> name, path |-> path, pct_used |-> pct,
     status |-> status, used_bytes |-> used, limit_bytes |-> limit]

\* isinstance(x, dict), isinstance(x, list), isinstance(x, int)
IsDict(x) == x.t = "dict"

IsList(x) == x.t = "list"

IsInt(x) == x.t \in {"int", "bool"}

\* d.get(key): None for a key the dict does not hold.
Get(d, key) == IF d[key] = Absent THEN None ELSE d[key]

\* d.get(key, default)
GetOr(d, key, default) == IF d[key] = Absent THEN default ELSE d[key]

\* The truth value Python's "or" tests.
Truthy(x) ==
    CASE IsNone(x)      -> FALSE
      [] x.t = "int"    -> x.v # 0
      [] x.t = "bool"   -> x.v
      [] x.t = "float"  -> x.twice # 0
      [] x.t = "nan"    -> TRUE
      [] x.t = "chars"  -> x.v # <<>>
      [] x.t = "list"   -> x.v # <<>>
      [] x.t = "dict"   -> TRUE

RECURSIVE NatText(_)
NatText(n) ==
    LET d == <<"0", "1", "2", "3", "4", "5", "6", "7", "8", "9">>[(n % 10) + 1]
    IN  IF n < 10 THEN <<d>> ELSE NatText(n \div 10) \o <<d>>

IntText(n) == IF n < 0 THEN <<"-">> \o NatText(0 - n) ELSE NatText(n)

\* str(x), for the values the model's reports put where the program calls str.
PyStr(x) ==
    CASE IsNone(x)      -> <<"N", "o", "n", "e">>
      [] x.t = "chars"  -> x.v
      [] x.t = "int"    -> IntText(x.v)
      [] x.t = "bool"   -> IF x.v THEN <<"T", "r", "u", "e">>
                                  ELSE <<"F", "a", "l", "s", "e">>
      [] x.t = "list"   -> IF x.v = <<>> THEN <<"[", "]">> ELSE <<"[", "?", "]">>

(***************************************************************************)
(* int(v or 0), the coercion _summarize applies to each counter.           *)
(***************************************************************************)
\* Whether int(x) raises: ValueError for text that is no integer literal and
\* for NaN, TypeError for a list or a dict.
IntRaises(x) ==
    CASE x.t = "chars" -> ~IntParses(x.v)
      [] x.t = "nan"   -> TRUE
      [] x.t = "list"  -> TRUE
      [] x.t = "dict"  -> TRUE
      [] OTHER         -> FALSE

\* int(x) where it returns: a float is truncated towards zero.
IntOf(x) ==
    CASE x.t = "int"    -> x.v
      [] x.t = "bool"   -> IF x.v THEN 1 ELSE 0
      [] x.t = "float"  -> IF x.twice < 0 THEN 0 - ((0 - x.twice) \div 2)
                                          ELSE x.twice \div 2
      [] x.t = "chars"  -> IntOfText(x.v)

\* s.get(key, 0) or 0
OrZero(s, key) ==
    LET v == GetOr(s, key, JInt(0))
    IN  IF Truthy(v) THEN v ELSE JInt(0)

CounterRaises(s, key) == IntRaises(OrZero(s, key))

Counter(s, key) == IntOf(OrZero(s, key))

(***************************************************************************)
(* The report loader.  A file is missing, or unreadable, or holds text     *)
(* that is no JSON, or holds the JSON value "value".                       *)
(***************************************************************************)
MissingFile == [exists |-> FALSE, readable |-> FALSE, json |-> FALSE, value |-> None]

UnreadableFile == [exists |-> TRUE, readable |-> FALSE, json |-> FALSE, value |-> None]

GarbageFile == [exists |-> TRUE, readable |-> TRUE, json |-> FALSE, value |-> None]

JsonFile(x) == [exists |-> TRUE, readable |-> TRUE, json |-> TRUE, value |-> x]

\* _load_json(path): read_text or json.loads raising gives None.
_load_json(file) ==
    IF file.readable /\ file.json THEN file.value ELSE None

(***************************************************************************)
(* The summarizer.                                                         *)
(***************************************************************************)
Status(r) == PyStr(Get(r, "status"))

OK == <<"O", "K">>

WARN == <<"W", "A", "R", "N">>

OVER == <<"O", "V", "E", "R">>

\* The tally sub-object, when the report is a dict that holds one.
SummaryDict(payload) ==
    IF ~IsNone(payload) /\ IsDict(payload) /\ ~IsNone(Get(payload, "summary"))
                        /\ IsDict(Get(payload, "summary"))
    THEN Get(payload, "summary")
    ELSE None

\* Lines 79-81: whether one of the three coercions raises.
SummarizeRaises(payload) ==
    LET s == SummaryDict(payload)
    IN  /\ ~IsNone(s)
        /\ \E key \in {"ok", "warn", "over"} : CounterRaises(s, key)

\* Lines 72, 76-81: the tally read from the report.
SuppliedSummary(payload) ==
    LET s == SummaryDict(payload)
    IN  IF IsNone(s) THEN [ok |-> 0, warn |-> 0, over |-> 0]
        ELSE [ok |-> Counter(s, "ok"), warn |-> Counter(s, "warn"),
              over |-> Counter(s, "over")]

\* Lines 73, 83-85.
SuppliedWarnings(payload) ==
    IF ~IsNone(payload) /\ IsDict(payload) /\ ~IsNone(Get(payload, "warnings"))
                        /\ IsList(Get(payload, "warnings"))
    THEN LET NonBlank(x) == Strip(PyStr(x)) # <<>>
             w == SelectSeq(Get(payload, "warnings").v, NonBlank)
         IN  [i \in 1..Len(w) |-> PyStr(w[i])]
    ELSE <<>>

\* Lines 74, 87-92.
SuppliedResults(payload) ==
    LET IsRecord(x) == ~IsNone(x) /\ IsDict(x)
    IN  IF IsNone(payload) THEN <<>>
        ELSE IF IsDict(payload)
        THEN IF ~IsNone(Get(payload, "results")) /\ IsList(Get(payload, "results"))
             THEN SelectSeq(Get(payload, "results").v, IsRecord)
             ELSE <<>>
        ELSE IF IsList(payload) THEN SelectSeq(payload.v, IsRecord)
        ELSE <<>>

\* A faulty count: the status labels are matched in any case.
CountedSummaryAnyCase(results) ==
    LET IsOk(r) == Lower(Status(r)) = Lower(OK)
        IsWarn(r) == Lower(Status(r)) = Lower(WARN)
        IsOver(r) == Lower(Status(r)) = Lower(OVER)
    IN  [ok   |-> Len(SelectSeq(results, IsOk)),
         warn |-> Len(SelectSeq(results, IsWarn)),
         over |-> Len(SelectSeq(results, IsOver))]

\* Lines 95-99: the tally derived by counting statuses.
CountedSummary(results) ==
    LET IsOk(r) == Status(r) = OK
        IsWarn(r) == Status(r) = WARN
        IsOver(r) == Status(r) = OVER
    IN  [ok   |-> Len(SelectSeq(results, IsOk)),
         warn |-> Len(SelectSeq(results, IsWarn)),
         over |-> Len(SelectSeq(results, IsOver))]

\* A faulty fallback condition: the tally is recounted whenever there are
\* results.
UseFallbackAnyResults(summary, results) == results # <<>>

\* Line 95: the fallback's condition.
UseFallback(summary, results) ==
    /\ <<summary.ok, summary.warn, summary.over>> = <<0, 0, 0>>
    /\ results # <<>>

\* _summarize(payload), where it returns.
_summarize(payload) ==
    LET summary == SuppliedSummary(payload)
        results == SuppliedResults(payload)
    IN  [summary  |-> IF UseFallback(summary, results)
                      THEN CountedSummary(results) ELSE summary,
         warnings |-> SuppliedWarnings(payload),
         results  |-> results]

(***************************************************************************)
(* The message builder.  The body is the list "lines"; each entry is kept  *)
(* as the f-string that made it, with the values it embeds.                *)
(***************************************************************************)
RECURSIVE Spaces(_)
Spaces(n) == IF n <= 0 THEN <<>> ELSE <<" ">> \o Spaces(n - 1)

\* f"{s:4}" and f"{s:>4}"
PadRight(s, width) == s \o Spaces(width - Len(s))

PadLeft(s, width) == Spaces(width - Len(s)) \o s

NoText == Chars(<<>>)

\* _fmt_row(r)
_fmt_row(r) ==
    LET name == PyStr(GetOr(r, "name", NoText))
        path == PyStr(GetOr(r, "path", NoText))
        pct == PyStr(GetOr(r, "pct_used", NoText))
        status == PyStr(GetOr(r, "status", NoText))
        used_b == Get(r, "used_bytes")
        limit_b == Get(r, "limit_bytes")
        used_part == IF IsInt(used_b) THEN PyStr(used_b) \o <<"B">> ELSE <<>>
        limit_part == IF IsInt(limit_b) THEN PyStr(limit_b) \o <<"B">> ELSE <<>>
        extra == IF used_part # <<>> /\ limit_part # <<>>
                 THEN <<" ", "(">> \o used_part \o <<"/">> \o limit_part \o <<")">>
                 ELSE <<>>
    IN  [kind |-> "row",
         text |-> <<"-", " ">> \o PadRight(status, 4) \o <<" ">> \o PadLeft(pct, 4)
                  \o <<"%", " ", " ">> \o name \o <<" ", " ", "|", " ", " ">>
                  \o path \o extra]

\* A faulty filter: every row that is not OK is listed.
IsAffectedNotOk(r) == Status(r) # OK

\* Line 135: only WARN/OVER rows are listed.
IsAffected(r) == Status(r) \in {WARN, OVER}

Affected(results) == SelectSeq(results, IsAffected)

\* Line 137
Subject(summary) ==
    [template |-> "dircap alert: OVER={over} WARN={warn}",
     over |-> summary.over, warn |-> summary.warn]

Blank == [kind |-> "blank"]

\* Lines 146-155
AffectedSection(results) ==
    LET affected == Affected(results)
    IN  IF affected # <<>>
        THEN <<[kind |-> "affected_head"]>>
             \o [i \in 1..Len(affected) |-> _fmt_row(affected[i])]
             \o <<Blank>>
        ELSE <<[kind |-> "affected_unparsed"], Blank>>

\* Lines 157-161
WarningsSection(warnings) ==
    IF warnings # <<>>
    THEN <<[kind |-> "warnings_head"]>>
         \o [i \in 1..Len(warnings) |-> [kind |-> "warning", text |-> warnings[i]]]
         \o <<Blank>>
    ELSE <<>>

\* Lines 163-167
LogsSection(log_txt, log_json) ==
    << [kind |-> "logs_head"],
       [kind |-> "log_text", path |-> log_txt],
       [kind |-> "log_json", path |-> log_json],
       Blank,
       [kind |-> "tip"] >>

\* _build_message(summary, warnings, results, log_txt, log_json); the time
\* line holds datetime.now(), which nothing else reads.
_build_message(summary, warnings, results, log_txt, log_json) ==
    [subject |-> Subject(summary),
     body    |-> << [kind |-> "header"],
                    Blank,
                    [kind |-> "summary", ok |-> summary.ok, warn |-> summary.warn,
                     over |-> summary.over],
                    [kind |-> "time"],
                    Blank >>
                 \o AffectedSection(results)
                 \o WarningsSection(warnings)
                 \o LogsSection(log_txt, log_json)]

(***************************************************************************)
(* The mailer's configuration (lines 173-200).                             *)
(***************************************************************************)
Required ==
    {"DIRCAP_EMAIL_TO", "DIRCAP_SMTP_SERVER", "DIRCAP_SMTP_USER", "DIRCAP_SMTP_PASS"}

\* A faulty check: os.getenv in place of _env, so that a blank value passes.
MissingRequiredUntrimmed(environ) ==
    \E name \in Required : IsNone(environ[name])

\* Line 178: one of the four required settings reads as None.
MissingRequired(environ) ==
    \E name \in Required : IsNone(_env(environ, name, None))

DefaultPort == Chars(<<"4", "6", "5">>)

\* Line 187
PortStr(environ) == _env(environ, "DIRCAP_SMTP_PORT", DefaultPort)

\* Lines 188-192: int(port_str) raises ValueError.
InvalidPort(environ) == ~IntParses(PortStr(environ).v)

Port(environ) == IntOfText(PortStr(environ).v)

\* Lines 195, 199
UseSsl(environ) == _env_bool(environ, "EMAIL_USE_SSL", Port(environ) = 465)

\* Lines 196, 200
UseTls(environ) == _env_bool(environ, "EMAIL_USE_TLS", Port(environ) = 587)

\* The locals of _send_email once the configuration is read.
Config(environ) ==
    [to          |-> _env(environ, "DIRCAP_EMAIL_TO", None),
     smtp_server |-> _env(environ, "DIRCAP_SMTP_SERVER", None),
     smtp_user   |-> _env(environ, "DIRCAP_SMTP_USER", None),
     smtp_pass   |-> _env(environ, "DIRCAP_SMTP_PASS", None),
     from_addr   |-> _env(environ, "DIRCAP_EMAIL_FROM",
                          _env(environ, "DIRCAP_SMTP_USER", None)),
     port        |-> Port(environ),
     use_ssl     |-> UseSsl(environ),
     use_tls     |-> UseTls(environ)]

(***************************************************************************)
(* The SMTP session (lines 208-220): the calls the program makes, in       *)
(* order.  Each call either returns or raises.                             *)
(***************************************************************************)
\* A faulty order: use_tls is tested before use_ssl.
AfterStepTlsFirst(step, use_ssl, use_tls) ==
    CASE step = "connect"      -> IF use_ssl /\ ~use_tls THEN "login" ELSE "ehlo"
      [] step = "ehlo"         -> IF use_tls THEN "starttls" ELSE "login"
      [] step = "starttls"     -> "ehlo_again"
      [] step = "ehlo_again"   -> "login"
      [] step = "login"        -> "send_message"
      [] step = "send_message" -> "close"

\* The call that follows "step" when "step" returns.
AfterStep(step, use_ssl, use_tls) ==
    CASE step = "connect"      -> IF use_ssl THEN "login" ELSE "ehlo"
      [] step = "ehlo"         -> IF use_tls THEN "starttls" ELSE "login"
      [] step = "starttls"     -> "ehlo_again"
      [] step = "ehlo_again"   -> "login"
      [] step = "login"        -> "send_message"
      [] step = "send_message" -> "close"

\* Where control goes when a call inside the with block raises: the with
\* statement releases the session before the exception reaches line 224.
AfterRaise(step) == "close"

\* Lines 210, 214: which class opens the connection.
ConnectOp(use_ssl) == IF use_ssl THEN "SMTP_SSL" ELSE "SMTP"

\* A faulty result: the except clause returns 1, the configuration code.
SendResultOne(raised) == IF raised THEN 1 ELSE 0

\* Lines 222-226: the mailer's return value, given whether an exception
\* reached the except clause.
SendResult(raised) == IF raised THEN 2 ELSE 0

(***************************************************************************)
(* The inputs of a run.                                                    *)
(***************************************************************************)
StatusLabels == {Absent, Chars(OK), Chars(WARN), Chars(OVER), Chars(<<"w", "a", "r", "n">>)}

\* A record that holds nothing but (at most) a status.
Rec(status) == Record(Absent, Absent, Absent, status, Absent, Absent)

\* The record of one folder as dircap writes it.
LogsRecord ==
    Record(Chars(<<"l", "o", "g", "s">>), Chars(<<"/", "v", "a", "r">>), JInt(91),
           Chars(WARN), JInt(910), JInt(1000))

\* The entries of a result list: records, and one entry that is no record.
Items == {Rec(st) : st \in StatusLabels} \cup {JInt(7)}

SeqsUpTo(S, n) == UNION {[1..k -> S] : k \in 0..n}

ResultLists == {JList(s) : s \in SeqsUpTo(Items, MaxResults)}

WarningItems == {Chars(<<"w">>), Chars(<<" ">>), JInt(5), None}

WarningLists == {JList(s) : s \in SeqsUpTo(WarningItems, MaxWarnings)}

Counts == {JInt(n) : n \in (0 - 1)..MaxCount}

\* Counter values of other types: null, booleans, floats 1.5, -1.5 and 0.5,
\* numeric and non-numeric text, NaN, lists.
OddCounts ==
    {None, JBool(TRUE), JBool(FALSE), JFloat(3), JFloat(0 - 3), JFloat(1),
     Chars(<<"2">>), Chars(<<" ", "-", "2", " ">>), Chars(<<>>), Chars(<<"x">>),
     NaN, JList(<<>>), JList(<<JInt(1)>>)}

Tallies ==
    {Tally(o, w, v) : o \in Counts \cup {Absent}, w \in Counts \cup {Absent},
                      v \in Counts \cup {Absent}}

OddTallies ==
    {Tally(x, Absent, Absent) : x \in OddCounts}
        \cup {Tally(JInt(1), x, Absent) : x \in OddCounts}
        \cup {Tally(Absent, Absent, x) : x \in OddCounts}

FewResults ==
    {Absent, None, JList(<<>>), JList(<<Rec(Chars(WARN))>>),
     JList(<<Rec(Chars(OK)), LogsRecord, JInt(7), Rec(Chars(OVER))>>)}

\* The reports of the summarizer's and the builder's claims.
Reports ==
    {None, JInt(3), Chars(<<"x">>)}
        \cup ResultLists
        \cup {Report(s, Absent, r) : s \in Tallies \cup {Absent}, r \in ResultLists}
        \cup {Report(s, Absent, r) : s \in OddTallies \cup {None, JList(<<>>)},
                                     r \in FewResults}
        \cup {Report(s, w, r) : s \in {Absent, Tally(JInt(1), JInt(1), JInt(0))},
                                w \in WarningLists \cup {None, Chars(<<"w">>)},
                                r \in FewResults}

ReportFiles == {JsonFile(x) : x \in Reports}

\* The log files of the whole-run claims.
FlowFiles ==
    {MissingFile, UnreadableFile, GarbageFile}
        \cup {JsonFile(x) : x \in
                {None,
                 JList(<<Rec(Chars(WARN)), Rec(Chars(OVER))>>),
                 Report(Tally(JInt(1), JInt(1), JInt(0)), JList(<<Chars(<<"w">>)>>),
                        JList(<<Rec(Chars(WARN))>>)),
                 Report(Tally(Chars(<<"x">>), Absent, Absent), Absent, Absent),
                 Report(Tally(Absent, JList(<<JInt(1)>>), Absent), Absent,
                        JList(<<Rec(Chars(OVER))>>))}}

Environ(to, server, user, pass, from, port, ssl, tls) ==
    [DIRCAP_EMAIL_TO |-> to, DIRCAP_SMTP_SERVER |-> server, DIRCAP_SMTP_USER |-> user,
     DIRCAP_SMTP_PASS |-> pass, DIRCAP_EMAIL_FROM |-> from, DIRCAP_SMTP_PORT |-> port,
     EMAIL_USE_SSL |-> ssl, EMAIL_USE_TLS |-> tls]

\* A setting is unset, empty, blank, or set (with spaces around it).
Settings == {None, Chars(<<>>), Chars(<<" ", "\t">>), Chars(<<" ", "a", " ">>)}

SetValue == Chars(<<"a">>)

PortSettings ==
    {None, Chars(<<>>), Chars(<<" ">>), Chars(<<"4", "6", "5">>),
     Chars(<<" ", "5", "8", "7">>), Chars(<<"2", "5", "2", "5">>),
     Chars(<<"2", "_", "5">>), Chars(<<"a", "b", "c">>), Chars(<<"5", "8", "7", "x">>),
     Chars(<<"4", " ", "6", "5">>), Chars(<<"-", "1">>)}

FlagSettings ==
    {None, Chars(<<>>), Chars(<<" ">>), Chars(<<"1">>), Chars(<<"t", "r", "u", "e">>),
     Chars(<<"T", "R", "U", "E">>), Chars(<<" ", "Y", "e", "s", " ">>), Chars(<<"y">>),
     Chars(<<"O", "n">>), Chars(<<"0">>), Chars(<<"f", "a", "l", "s", "e">>),
     Chars(<<"n", "o">>), Chars(<<"o", "f", "f">>), Chars(<<"2">>),
     Chars(<<"t">>), Chars(<<"o", "n", "e">>)}

FewFlags == {None, Chars(<<"1">>), Chars(<<"0">>)}

\* The environments of the whole-run claims: every way of missing a required
\* setting with the rest at their defaults, and every port and flag with the
\* required settings present.
FlowEnvs ==
    {Environ(t, s, u, p, None, None, None, None) :
        t \in Settings, s \in Settings, u \in Settings, p \in Settings}
        \cup {Environ(t, SetValue, SetValue, SetValue, None, q, None, None) :
                t \in Settings, q \in PortSettings}
        \cup {Environ(SetValue, SetValue, SetValue, SetValue, f, q, ssl, tls) :
                f \in {None, SetValue}, q \in PortSettings,
                ssl \in FewFlags, tls \in FewFlags}

\* The environments of the transport-flag claim.
FlagEnvs ==
    {Environ(SetValue, SetValue, SetValue, SetValue, None, q, ssl, tls) :
        q \in PortSettings, ssl \in FlagSettings, tls \in FlagSettings}

\* argv: the program name, then the arguments.
Argv(n, log_txt, log_json) ==
    [i \in 1..n |-> CASE i = 1 -> "send-email.py"
                      [] i = 2 -> log_txt
                      [] i = 3 -> log_json
                      [] OTHER -> "extra"]

TxtPaths == {"dircap-last.txt"}

JsonPaths == {"dircap-last.json", "logs/last.json"}

Argvs == {Argv(n, t, j) : n \in 1..MaxArgc, t \in TxtPaths, j \in JsonPaths}

(***************************************************************************)
(* The state of one run.                                                   *)
(***************************************************************************)
VARIABLES
    pc,         \* where the run is
    argv,       \* sys.argv
    file,       \* what the JSON log path holds when main looks at it
    payload,    \* main's payload
    summary,    \* main's summary
    warnings,   \* main's warnings
    results,    \* main's results
    subject,    \* main's subject
    body,       \* main's body, as the list of its lines
    environ,    \* os.environ as _send_email reads it
    cfg,        \* the mailer's locals once its configuration is read
    events,     \* the SMTP calls made so far, each with whether it returned
    raised,     \* an exception is on its way to the except clause of line 224
    stdout,     \* what was printed to stdout
    stderr,     \* what was printed to stderr
    exit_code   \* the process exit status, NoExit while the run goes on

vars ==
    <<pc, argv, file, payload, summary, warnings, results, subject, body,
      environ, cfg, events, raised, stdout, stderr, exit_code>>

NoExit == [t |-> "running"]

Exit(n) == [t |-> "exit", code |-> n]

InitWith(args) ==
    /\ pc = "main"
    /\ argv \in args
    /\ file = None
    /\ payload = None
    /\ summary = None
    /\ warnings = <<>>
    /\ results = <<>>
    /\ subject = None
    /\ body = <<>>
    /\ environ = None
    /\ cfg = None
    /\ events = <<>>
    /\ raised = FALSE
    /\ stdout = <<>>
    /\ stderr = <<>>
    /\ exit_code = NoExit

Init == InitWith(Argvs)

\* Lines 231-233: the wrong number of arguments.
MainUsage ==
    /\ pc = "main"
    /\ Len(argv) # 3
    /\ stderr' = Append(stderr, "usage")
    /\ exit_code' = Exit(2)
    /\ pc' = "exit"
    /\ UNCHANGED <<argv, file, payload, summary, warnings, results, subject, body,
                   environ, cfg, events, raised, stdout>>

\* Lines 235-238: the JSON log, which holds one of "files", is loaded if
\* the path exists.
MainLoad(files) ==
    /\ pc = "main"
    /\ Len(argv) = 3
    /\ \E f \in files :
          /\ file' = f
          /\ payload' = IF f.exists THEN _load_json(f) ELSE None
    /\ pc' = "summarize"
    /\ UNCHANGED <<argv, summary, warnings, results, subject, body, environ, cfg,
                   events, raised, stdout, stderr, exit_code>>

\* Line 239: _summarize returns, or an exception of int() leaves main and
\* the interpreter exits with a traceback and status 1.
MainSummarize ==
    /\ pc = "summarize"
    /\ IF SummarizeRaises(payload)
       THEN /\ stderr' = Append(stderr, "traceback")
            /\ exit_code' = Exit(1)
            /\ pc' = "exit"
            /\ UNCHANGED <<summary, warnings, results>>
       ELSE /\ summary' = _summarize(payload).summary
            /\ warnings' = _summarize(payload).warnings
            /\ results' = _summarize(payload).results
            /\ pc' = "build"
            /\ UNCHANGED <<stderr, exit_code>>
    /\ UNCHANGED <<argv, file, payload, subject, body, environ, cfg, events, raised,
                   stdout>>

\* Lines 241-247
MainBuild ==
    /\ pc = "build"
    /\ subject' = _build_message(summary, warnings, results, argv[2], argv[3]).subject
    /\ body' = _build_message(summary, warnings, results, argv[2], argv[3]).body
    /\ pc' = "send"
    /\ UNCHANGED <<argv, file, payload, summary, warnings, results, environ, cfg,
                   events, raised, stdout, stderr, exit_code>>

\* Lines 173-206: the mailer reads its configuration from the environment,
\* which is one of "envs".
SendConfig(envs) ==
    /\ pc = "send"
    /\ \E e \in envs :
          /\ environ' = e
          /\ IF MissingRequired(e)
             THEN /\ stderr' = Append(stderr, "missing_env")
                  /\ exit_code' = Exit(1)
                  /\ pc' = "exit"
                  /\ UNCHANGED cfg
             ELSE IF InvalidPort(e)
             THEN /\ stderr' = Append(stderr, "invalid_port")
                  /\ exit_code' = Exit(1)
                  /\ pc' = "exit"
                  /\ UNCHANGED cfg
             ELSE /\ cfg' = Config(e)
                  /\ pc' = "connect"
                  /\ UNCHANGED <<stderr, exit_code>>
    /\ UNCHANGED <<argv, file, payload, summary, warnings, results, subject, body,
                   events, raised, stdout>>

\* One call on the session: it returns (ok) or raises.
Call(step, op, ok) ==
    /\ pc = step
    /\ events' = Append(events, [op |-> op, ok |-> ok])
    /\ raised' = ~ok
    /\ pc' = IF ok THEN AfterStep(step, cfg.use_ssl, cfg.use_tls) ELSE AfterRaise(step)
    /\ UNCHANGED <<argv, file, payload, summary, warnings, results, subject, body,
                   environ, cfg, stdout, stderr, exit_code>>

\* Lines 210, 214: the connection is opened, or the constructor raises and
\* there is no session to release: the except clause runs at once.
Connect(ok) ==
    /\ pc = "connect"
    /\ events' = Append(events, [op |-> ConnectOp(cfg.use_ssl), ok |-> ok])
    /\ IF ok
       THEN /\ pc' = AfterStep("connect", cfg.use_ssl, cfg.use_tls)
            /\ UNCHANGED <<raised, stderr, exit_code>>
       ELSE /\ raised' = TRUE
            /\ stderr' = Append(stderr, "email_failed")
            /\ exit_code' = Exit(SendResult(TRUE))
            /\ pc' = "exit"
    /\ UNCHANGED <<argv, file, payload, summary, warnings, results, subject, body,
                   environ, cfg, stdout>>

\* Line 215
Ehlo(ok) == Call("ehlo", "ehlo", ok)

\* Line 217
StartTls(ok) == Call("starttls", "starttls", ok)

\* Line 218
EhloAgain(ok) == Call("ehlo_again", "ehlo", ok)

\* Lines 211, 219
Login(ok) == Call("login", "login", ok)

\* Lines 212, 220
SendMessage(ok) == Call("send_message", "send_message", ok)

\* The end of the with block and lines 222-226.  Leaving the block sends
\* QUIT and closes the socket; QUIT is answered ("ok"), or finds the server
\* gone, which smtplib ignores ("disconnected"), or raises ("error").
Close(quit) ==
    /\ pc = "close"
    /\ events' = Append(events, [op |-> "close", ok |-> quit # "error"])
    /\ raised' = (raised \/ quit = "error")
    /\ IF raised'
       THEN /\ stderr' = Append(stderr, "email_failed")
            /\ UNCHANGED stdout
       ELSE /\ stdout' = Append(stdout, "email_sent")
            /\ UNCHANGED stderr
    /\ exit_code' = Exit(SendResult(raised'))
    /\ pc' = "exit"
    /\ UNCHANGED <<argv, file, payload, summary, warnings, results, subject, body,
                   environ, cfg>>

Session ==
    \/ \E ok \in BOOLEAN : Connect(ok)
    \/ \E ok \in BOOLEAN : Ehlo(ok)
    \/ \E ok \in BOOLEAN : StartTls(ok)
    \/ \E ok \in BOOLEAN : EhloAgain(ok)
    \/ \E ok \in BOOLEAN : Login(ok)
    \/ \E ok \in BOOLEAN : SendMessage(ok)
    \/ \E quit \in {"ok", "disconnected", "error"} : Close(quit)

\* A run of the program.
Next ==
    \/ MainUsage
    \/ MainLoad(FlowFiles)
    \/ MainSummarize
    \/ MainBuild
    \/ SendConfig(FlowEnvs)
    \/ Session

Spec == Init /\ [][Next]_vars

\* Runs with two arguments, over every report, up to the built message.
InitReport == InitWith({a \in Argvs : Len(a) = 3})

NextReport ==
    \/ MainLoad(ReportFiles)
    \/ MainSummarize
    \/ MainBuild

SpecReport == InitReport /\ [][NextReport]_vars

\* Runs on a missing log, over every port and flag setting, up to the
\* mailer's configuration.
InitFlags == InitWith({Argv(3, "dircap-last.txt", "dircap-last.json")})

NextFlags ==
    \/ MainLoad({MissingFile})
    \/ MainSummarize
    \/ MainBuild
    \/ SendConfig(FlagEnvs)

SpecFlags == InitFlags /\ [][NextFlags]_vars

(***************************************************************************)
(* What the claims speak of.                                               *)
(***************************************************************************)
Exited == pc = "exit"

\* The mailer was entered: it has read the environment.
MailerRan == environ # None

\* The mailer found its configuration valid and went on to the network.
Configured == cfg # None

Printed(stream, what) == \E i \in 1..Len(stream) : stream[i] = what

Ops == [i \in 1..Len(events) |-> events[i].op]

AllReturned == \A i \in 1..Len(events) : events[i].ok

\* A setting that is unset, empty or made of whitespace only.
BlankSetting(v) ==
    v = None \/ \A i \in 1..Len(v.v) : v.v[i] \in {" ", "\t", "\n"}

SomeRequiredBlank ==
    \/ BlankSetting(environ.DIRCAP_EMAIL_TO)
    \/ BlankSetting(environ.DIRCAP_SMTP_SERVER)
    \/ BlankSetting(environ.DIRCAP_SMTP_USER)
    \/ BlankSetting(environ.DIRCAP_SMTP_PASS)

\* The port variable is set, and int() does not accept its text.
PortSetNonNumeric ==
    /\ environ.DIRCAP_SMTP_PORT # None
    /\ ~IntParses(environ.DIRCAP_SMTP_PORT.v)

NoNetwork == Exited /\ exit_code = Exit(1) /\ events = <<>>

(***************************************************************************)
(* C1.  Called with a number of arguments other than two, main prints the  *)
(* usage line and exits with code 1, which differs from the send-failure   *)
(* code 2, and the loader, summarizer, builder and mailer do not run.      *)
(* The program exits with 2 there.                                         *)
(***************************************************************************)
C1_UsageExitsWithOne ==
    (Exited /\ Len(argv) # 3) =>
        /\ Printed(stderr, "usage")
        /\ exit_code = Exit(1)
        /\ exit_code # Exit(SendResult(TRUE))
        /\ file = None /\ summary = None /\ subject = None /\ ~MailerRan

(***************************************************************************)
(* C2.  With two arguments, whatever the JSON log path holds, the run      *)
(* reaches the mailer: no exception leaves the loader, the summarizer or   *)
(* the builder.  A tally value that int() rejects ends the run in          *)
(* _summarize.                                                             *)
(***************************************************************************)
C2_AlwaysReachesMailer ==
    (Exited /\ Len(argv) = 3) => (MailerRan /\ ~Printed(stderr, "traceback"))

(***************************************************************************)
(* C3.  If one of the four required settings is unset, empty or            *)
(* whitespace-only, or DIRCAP_SMTP_PORT is set to a non-numeric value, the *)
(* mailer returns 1 and makes no SMTP call.  As stated this fails for a    *)
(* port set to an empty or whitespace-only value, which reads as unset.    *)
(***************************************************************************)
C3_BadConfigNoNetwork_Original ==
    (MailerRan /\ (SomeRequiredBlank \/ PortSetNonNumeric)) => NoNetwork

\* C3 as amended: the port counts as non-numeric only when it is not blank.
C3_BadConfigNoNetwork ==
    (MailerRan /\ (SomeRequiredBlank
                     \/ (PortSetNonNumeric /\ ~BlankSetting(environ.DIRCAP_SMTP_PORT))))
        => NoNetwork

\* The four required settings are there and the port is text that is no number.
C3_Witness ==
    /\ MailerRan
    /\ ~SomeRequiredBlank
    /\ environ.DIRCAP_SMTP_PORT = Chars(<<"5", "8", "7", "x">>)
    /\ NoNetwork
    /\ Printed(stderr, "invalid_port")

\* connect, the handshakes, login and send_message were all made and returned.
ProtocolStepsReturned ==
    /\ \E i \in 1..Len(events) : events[i].op = "send_message" /\ events[i].ok
    /\ \A i \in 1..Len(events) : events[i].op # "close" => events[i].ok

NoteIffZero == Printed(stdout, "email_sent") <=> exit_code = Exit(0)

(***************************************************************************)
(* C4.  With valid arguments and configuration the exit code is the        *)
(* mailer's result: 0, with the confirmation note, exactly when connect,   *)
(* handshakes, login and send all succeed; 2 without the note when one of  *)
(* them raises; the note is printed iff the exit code is 0.  As stated     *)
(* this fails when the QUIT that ends the with block raises after a        *)
(* successful send.                                                        *)
(***************************************************************************)
C4_ExitCode_Original ==
    /\ NoteIffZero
    /\ (Exited /\ Configured) =>
          /\ exit_code \in {Exit(0), Exit(2)}
          /\ exit_code = Exit(0) <=> ProtocolStepsReturned

\* C4 as amended: the release of the session counts among the steps.
C4_ExitCode ==
    /\ NoteIffZero
    /\ (Exited /\ Configured) =>
          /\ exit_code \in {Exit(0), Exit(2)}
          /\ exit_code = Exit(0) <=> (ProtocolStepsReturned /\ AllReturned)
          /\ exit_code = Exit(2) <=> ~AllReturned
          /\ Printed(stderr, "email_failed") <=> exit_code = Exit(2)

\* The server rejects the login: exit 2, no note.
C4_Witness ==
    /\ Exited /\ Configured
    /\ \E i \in 1..Len(events) : events[i].op = "login" /\ ~events[i].ok
    /\ exit_code = Exit(2)
    /\ ~Printed(stdout, "email_sent")

ExpectedOps ==
    IF cfg.use_ssl THEN <<"SMTP_SSL", "login", "send_message", "close">>
    ELSE IF cfg.use_tls
    THEN <<"SMTP", "ehlo", "starttls", "ehlo", "login", "send_message", "close">>
    ELSE <<"SMTP", "ehlo", "login", "send_message", "close">>

FirstRaise ==
    CHOOSE i \in 1..Len(events) :
        ~events[i].ok /\ \A j \in 1..(i - 1) : events[j].ok

(***************************************************************************)
(* C7.  The session's calls come in the order the flags fix: with use_ssl, *)
(* SMTP_SSL, login, send_message, close, and neither ehlo nor starttls     *)
(* even if use_tls is set; without, SMTP, ehlo, then starttls and a second *)
(* ehlo only if use_tls, then login, send_message, close.  login comes     *)
(* before send_message, a call that raises is followed by no later         *)
(* protocol call, and a connection that was opened is closed on every way  *)
(* out.                                                                    *)
(***************************************************************************)
C7_SessionOrder ==
    Configured =>
        \* the calls made so far are the first of the expected ones, except
        \* that close may come early, after a call that raised
        /\ \A i \in 1..Len(events) :
              Ops[i] = ExpectedOps[i] \/ (Ops[i] = "close" /\ ~events[i - 1].ok)
        /\ \A i \in 1..Len(events) :
              Ops[i] = "send_message" =>
                  \E j \in 1..(i - 1) : Ops[j] = "login" /\ events[j].ok
        /\ Exited =>
              /\ events # <<>>
              /\ AllReturned => Ops = ExpectedOps
              /\ ~AllReturned =>
                    Ops = SubSeq(ExpectedOps, 1, FirstRaise)
                            \o (IF FirstRaise \in 2..(Len(ExpectedOps) - 1)
                                THEN <<"close">> ELSE <<>>)
              /\ events[1].ok => Ops[Len(Ops)] = "close"

\* Both flags set, everything succeeds: the implicit-TLS order, no starttls.
C7_Witness ==
    /\ Exited /\ Configured
    /\ cfg.use_ssl /\ cfg.use_tls
    /\ AllReturned
    /\ Ops = <<"SMTP_SSL", "login", "send_message", "close">>

\* Further cases of C7 that runs reach.
C7_StartTlsRun ==
    /\ Exited /\ Configured /\ AllReturned
    /\ Ops = <<"SMTP", "ehlo", "starttls", "ehlo", "login", "send_message", "close">>

C7_StartTlsRaises ==
    /\ Exited /\ Configured
    /\ Ops = <<"SMTP", "ehlo", "starttls", "close">>

\* The flag settings that read as no override, and those that read as true.
NoOverride == {None, Chars(<<>>), Chars(<<" ">>)}

ReadAsTrue ==
    {Chars(<<"1">>), Chars(<<"t", "r", "u", "e">>), Chars(<<"T", "R", "U", "E">>),
     Chars(<<" ", "Y", "e", "s", " ">>), Chars(<<"y">>), Chars(<<"O", "n">>)}

ExpectedFlag(setting, default) ==
    IF setting \in NoOverride THEN default ELSE setting \in ReadAsTrue

(***************************************************************************)
(* C5.  use_ssl is the boolean reading of EMAIL_USE_SSL when that variable *)
(* is set to a non-blank value (true only for 1/true/yes/y/on in any       *)
(* case), and otherwise port = 465; use_tls likewise from EMAIL_USE_TLS    *)
(* and port = 587.  So without overrides 465 gives (ssl, no tls), 587      *)
(* gives (no ssl, tls), any other port gives neither; overrides reach all  *)
(* four combinations.                                                      *)
(***************************************************************************)
C5_TransportFlags ==
    Configured =>
        /\ cfg.use_ssl = ExpectedFlag(environ.EMAIL_USE_SSL, cfg.port = 465)
        /\ cfg.use_tls = ExpectedFlag(environ.EMAIL_USE_TLS, cfg.port = 587)
        /\ (environ.EMAIL_USE_SSL = None /\ environ.EMAIL_USE_TLS = None) =>
              /\ cfg.port = 465 => (cfg.use_ssl /\ ~cfg.use_tls)
              /\ cfg.port = 587 => (~cfg.use_ssl /\ cfg.use_tls)
              /\ cfg.port \notin {465, 587} => (~cfg.use_ssl /\ ~cfg.use_tls)

\* Both flags overridden to true on port 2525, by values that need trimming
\* and lowering.
C5_Witness ==
    /\ Configured
    /\ cfg.port = 2525
    /\ environ.EMAIL_USE_SSL = Chars(<<" ", "Y", "e", "s", " ">>)
    /\ environ.EMAIL_USE_TLS = Chars(<<"T", "R", "U", "E">>)
    /\ cfg.use_ssl /\ cfg.use_tls

\* Further cases of C5 that runs reach.
C5_NeitherFlag ==
    /\ Configured /\ cfg.port = 2525
    /\ environ.EMAIL_USE_SSL = None /\ environ.EMAIL_USE_TLS = None
    /\ ~cfg.use_ssl /\ ~cfg.use_tls

C5_SslOffOnDefaultPort ==
    /\ Configured /\ cfg.port = 465 /\ environ.DIRCAP_SMTP_PORT = None
    /\ ~cfg.use_ssl /\ cfg.use_tls

C5_TlsOnly ==
    /\ Configured /\ cfg.port = 587
    /\ environ.EMAIL_USE_SSL = None /\ environ.EMAIL_USE_TLS = None
    /\ ~cfg.use_ssl /\ cfg.use_tls

(***************************************************************************)
(* What the claims on the summarizer and the builder speak of, read off    *)
(* the report itself.                                                      *)
(***************************************************************************)
Summarized == pc \in {"build", "send"}

Built == pc = "send"

Zero == [ok |-> 0, warn |-> 0, over |-> 0]

\* The integer each counter value of the model's reports stands for.
ExpectedCount(x) ==
    CASE x \in {Absent, None}                                  -> 0
      [] x.t = "int"                                           -> x.v
      [] x = JBool(TRUE)                                       -> 1
      [] x = JBool(FALSE)                                      -> 0
      [] x = JFloat(3)                                         -> 1
      [] x = JFloat(0 - 3)                                     -> 0 - 1
      [] x = JFloat(1)                                         -> 0
      [] x = Chars(<<"2">>)                                    -> 2
      [] x = Chars(<<" ", "-", "2", " ">>)                     -> 0 - 2
      [] x \in {Chars(<<>>), JList(<<>>)}                      -> 0

HasTally == payload.t = "dict" /\ payload.summary.t = "dict"

ReportTally ==
    IF HasTally
    THEN [ok   |-> ExpectedCount(payload.summary.ok),
          warn |-> ExpectedCount(payload.summary.warn),
          over |-> ExpectedCount(payload.summary.over)]
    ELSE Zero

ReportEntries ==
    IF payload.t = "dict" /\ payload.results.t = "list" THEN payload.results.v
    ELSE IF payload.t = "list" THEN payload.v
    ELSE <<>>

ReportRecords ==
    LET IsRec(x) == x.t = "dict" IN SelectSeq(ReportEntries, IsRec)

Labelled(label) ==
    Cardinality({i \in 1..Len(ReportRecords) : ReportRecords[i].status = Chars(label)})

ReportCounted ==
    [ok   |-> Labelled(<<"O", "K">>),
     warn |-> Labelled(<<"W", "A", "R", "N">>),
     over |-> Labelled(<<"O", "V", "E", "R">>)]

(***************************************************************************)
(* C6.  _summarize returns the supplied tally as it is (each counter       *)
(* coerced to an integer, absent or null as 0) unless that tally is        *)
(* (0,0,0) and the filtered result list is non-empty; then each counter is *)
(* the number of records whose status is "OK", "WARN", "OVER".  A flat     *)
(* list always gets the counted tally, a record with another status counts *)
(* nowhere, and a null or unrecognized report gives (0,0,0), no warnings   *)
(* and no results.                                                         *)
(***************************************************************************)
C6_TallyOrFallback ==
    Summarized =>
        /\ results = ReportRecords
        /\ summary = IF ReportTally = Zero /\ ReportRecords # <<>>
                     THEN ReportCounted ELSE ReportTally
        /\ payload.t = "list" => summary = ReportCounted
        /\ summary.ok + summary.warn + summary.over <= Len(ReportRecords)
              \/ summary = ReportTally
        /\ payload.t \notin {"dict", "list"} =>
              (summary = Zero /\ warnings = <<>> /\ results = <<>>)

\* A verbose report whose tally is all zero and whose results say otherwise.
C6_Witness ==
    /\ Summarized
    /\ HasTally /\ payload.summary = Tally(JInt(0), Absent, JInt(0))
    /\ Len(results) = 2
    /\ summary = [ok |-> 0, warn |-> 1, over |-> 1]

\* Further cases of C6 that runs reach.
C6_Verbatim ==
    /\ Summarized
    /\ payload.t = "dict" /\ payload.summary = Tally(JInt(1), JInt(1), JInt(0))
    /\ Len(results) = 2 /\ ReportCounted = [ok |-> 0, warn |-> 0, over |-> 2]
    /\ summary = [ok |-> 1, warn |-> 1, over |-> 0]

C6_HalfIsZero ==
    /\ Summarized
    /\ HasTally /\ payload.summary.over = JFloat(1)
    /\ summary = [ok |-> 0, warn |-> 1, over |-> 0]

(***************************************************************************)
(* C8.  The summary _summarize returns has exactly the keys ok, warn and   *)
(* over, each a non-negative integer, also when the tally is the report's  *)
(* own.  A negative counter in the report comes back as it is.             *)
(***************************************************************************)
C8_CountersNonNegative ==
    Summarized =>
        /\ DOMAIN summary = {"ok", "warn", "over"}
        /\ \A key \in {"ok", "warn", "over"} : summary[key] \in Nat

Kinds == [i \in 1..Len(body) |-> body[i].kind]

Lines(kind) ==
    LET Is(l) == l.kind = kind IN SelectSeq(body, Is)

WarnOrOver ==
    LET Is(r) == r.status \in {Chars(<<"W", "A", "R", "N">>), Chars(<<"O", "V", "E", "R">>)}
    IN  SelectSeq(results, Is)

(***************************************************************************)
(* C9.  In the body, the "Affected folders" section lists exactly the      *)
(* records whose status is WARN or OVER, one line each, in their order,    *)
(* never an OK record; with no such record the section is the one          *)
(* "could not parse details" line.  The "Warnings" section is there iff    *)
(* there are warnings, the "Logs" section with the two paths is always     *)
(* there, and the subject embeds the over and warn counts only.            *)
(***************************************************************************)
C9_MessageSections ==
    Built =>
        /\ Len(Lines("row")) = Len(WarnOrOver)
        /\ \A i \in 1..Len(WarnOrOver) : Lines("row")[i] = _fmt_row(WarnOrOver[i])
        /\ WarnOrOver # <<>> =>
              /\ Lines("affected_unparsed") = <<>>
              /\ \E k \in 1..Len(body) :
                    /\ Kinds[k] = "affected_head"
                    /\ SubSeq(body, k + 1, k + Len(WarnOrOver)) = Lines("row")
                    /\ Kinds[k + Len(WarnOrOver) + 1] = "blank"
        /\ WarnOrOver = <<>> =>
              /\ Len(Lines("affected_unparsed")) = 1
              /\ Lines("affected_head") = <<>>
        /\ Len(Lines("warnings_head")) = (IF warnings # <<>> THEN 1 ELSE 0)
        /\ Lines("warning") = [i \in 1..Len(warnings) |->
                                  [kind |-> "warning", text |-> warnings[i]]]
        /\ \E k \in 1..Len(body) :
              /\ Kinds[k] = "logs_head"
              /\ body[k + 1] = [kind |-> "log_text", path |-> argv[2]]
              /\ body[k + 2] = [kind |-> "log_json", path |-> argv[3]]
        /\ Len(Lines("logs_head")) = 1
        /\ subject = [template |-> "dircap alert: OVER={over} WARN={warn}",
                      over |-> summary.over, warn |-> summary.warn]

\* An OK record, a WARN record, an entry that is no record and an OVER
\* record, with warnings: two rows, WARN first.
C9_Witness ==
    /\ Built
    /\ Len(results) = 3 /\ Len(WarnOrOver) = 2
    /\ results[1].status = Chars(<<"O", "K">>)
    /\ Len(Lines("row")) = 2
    /\ Lines("row")[1] = _fmt_row(LogsRecord)
    /\ Lines("row")[2] = _fmt_row(Rec(Chars(<<"O", "V", "E", "R">>)))
    /\ warnings # <<>>

\* Further cases of C9 that runs reach.
C9_NoRows ==
    /\ Built /\ results # <<>> /\ Len(Lines("affected_unparsed")) = 1
    /\ Lines("warnings_head") = <<>>

C9_RowText ==
    /\ Built
    /\ \E i \in 1..Len(body) :
          body[i] = [kind |-> "row",
                     text |-> <<"-", " ", "W", "A", "R", "N", " ", " ", " ", "9", "1",
                                "%", " ", " ", "l", "o", "g", "s", " ", " ", "|", " ",
                                " ", "/", "v", "a", "r", " ", "(", "9", "1", "0", "B",
                                "/", "1", "0", "0", "0", "B", ")">>]

SubjectAgreesWithRows ==
    /\ subject.warn + subject.over = Len(Lines("row"))
    /\ Lines("affected_unparsed") # <<>> => (subject.over = 0 /\ subject.warn = 0)

(***************************************************************************)
(* C10.  The subject's counts agree with the body's rows: warn + over of   *)
(* the subject is the number of lines in the "Affected folders" section,   *)
(* and the subject never shows a non-zero count above the "could not       *)
(* parse details" line.  As stated this fails for a report whose own tally *)
(* is not all zero: that tally is used as it is, whatever the results say. *)
(***************************************************************************)
C10_SubjectAgrees_Original == Built => SubjectAgreesWithRows

\* C10 as amended: for a report that supplies no tally, or an all-zero one.
C10_SubjectAgrees == (Built /\ ReportTally = Zero) => SubjectAgreesWithRows

\* A verbose report with an all-zero tally and two affected records.
C10_Witness ==
    /\ Built
    /\ HasTally /\ ReportTally = Zero
    /\ Len(Lines("row")) = 2
    /\ subject.warn + subject.over = 2
=============================================================================
